---- MODULE Spec2Model ----
(***************************************************************************)
(* Model of remove_ilm_policy.py: scan of the composable index templates   *)
(* of a cluster, pattern filter, lifecycle inspection, the strip-lifecycle *)
(* transformation, the dry-run plan, the confirmed execute loop and the    *)
(* list-lifecycle mode.                                                    *)
(*                                                                         *)
(* JSON values are records [kind, kv, s, items]:                           *)
(*   kind = "obj"  : kv is the sequence of <<key, value>> pairs, in the    *)
(*                   insertion order a Python dict keeps;                  *)
(*   kind = "str"  : s is the string;                                      *)
(*   kind = "arr"  : items is a sequence of strings, each a tuple of       *)
(*                   one-character strings (index patterns).               *)
(***************************************************************************)
EXTENDS Integers, Sequences, FiniteSets, TLC

VARIABLES
    cluster,        \* templates stored on the cluster, in listing order
    cluster0,       \* the cluster as the current run found it
    run,            \* number of the current run of the program
    previous,       \* the eligible list of the run before, and how it went
    mode,           \* "plan" | "execute" | "list"  (argparse result)
    pc,             \* position of the run in main()
    comp,           \* entries of the fetched catalog being iterated
    idx,            \* index of the next item of the current loop
    candidates,     \* scan_templates: names matching the pattern, with ILM
    skipped,        \* scan_templates: names matching the pattern, without
    names,          \* list_templates_with_lifecycle: names with ILM
    requests,       \* every curl request issued so far, in order
    faults,         \* number of requests that did not succeed so far
    operatorInput,  \* what the operator typed at the prompt
    printed,        \* messages printed to the operator
    planFile,       \* ilm_template_removal_plan.txt
    listFile,       \* templates_with_lifecycle.txt
    reportFile,     \* report_details.txt
    patterns,       \* PatternSpec: the index_patterns under test
    selected,       \* PatternSpec: result of the pattern filter
    tmplIn,         \* StripSpec: the template body under test
    tmplOut         \* StripSpec: the bodies produced by successive strips

mainVars == <<cluster, cluster0, run, previous, mode, pc, comp, idx, candidates, skipped, names,
              requests, faults, operatorInput, printed, planFile, listFile,
              reportFile>>
pureVars == <<patterns, selected, tmplIn, tmplOut>>
vars == <<cluster, cluster0, run, previous, mode, pc, comp, idx, candidates, skipped, names,
          requests, faults, operatorInput, printed, planFile, listFile,
          reportFile, patterns, selected, tmplIn, tmplOut>>

----------------------------------------------------------------------------
(* Bounds *)

MaxTemplates == 3
MaxFaults == 1
MaxPatterns == 2
MaxRuns == 2

----------------------------------------------------------------------------
(* JSON values and the dict operations the code uses *)

Obj(kv) == [kind |-> "obj", kv |-> kv, s |-> "", items |-> <<>>]
Str(x) == [kind |-> "str", kv |-> <<>>, s |-> x, items |-> <<>>]
Arr(xs) == [kind |-> "arr", kv |-> <<>>, s |-> "", items |-> xs]

EmptyDict == Obj(<<>>)

\* key in d
HasKey(d, k) == \E i \in 1..Len(d.kv) : d.kv[i][1] = k

\* d.get(k, default)
Get(d, k, default) ==
    IF HasKey(d, k)
    THEN d.kv[CHOOSE i \in 1..Len(d.kv) : d.kv[i][1] = k][2]
    ELSE default

\* d.pop(k, None): the dict that is left
Pop(d, k) == Obj(SelectSeq(d.kv, LAMBDA p : p[1] # k))

\* d[k] = v for a key already in d (an in-place change of a nested dict)
Put(d, k, v) ==
    Obj([i \in 1..Len(d.kv) |-> IF d.kv[i][1] = k THEN <<k, v>> ELSE d.kv[i]])

Keys(d) == [i \in 1..Len(d.kv) |-> d.kv[i][1]]

----------------------------------------------------------------------------
(* Lifecycle stripper: line 87 of remove_lifecycle_from_template.  The     *)
(* chained .get(k, {}) calls return a fresh dict when a level is missing,  *)
(* so the pop then changes nothing reachable from tmpl.                    *)

\* 'lifecycle' in tmpl.get('template', {}).get('settings', {}).get('index', {})
HasLifecycleKey(tmpl) ==
    LET settings == Get(Get(tmpl, "template", EmptyDict), "settings", EmptyDict)
    IN  HasKey(Get(settings, "index", EmptyDict), "lifecycle")

\* d.setdefault(k, {}): the dict afterwards
SetDefault(d, k) == IF HasKey(d, k) THEN d ELSE Obj(Append(d.kv, <<k, EmptyDict>>))

\* the strip written with setdefault: missing levels are created
StripLifecycleSetdefault(tmpl) ==
    LET t1 == SetDefault(tmpl, "template")
        template == SetDefault(Get(t1, "template", EmptyDict), "settings")
        settings == SetDefault(Get(template, "settings", EmptyDict), "index")
        index == Get(settings, "index", EmptyDict)
    IN  Put(t1, "template",
            Put(template, "settings",
                Put(settings, "index", Pop(index, "lifecycle"))))

\* the strip removing the policy name only, the lifecycle object left in place
StripPolicyNameOnly(tmpl) ==
    IF ~HasLifecycleKey(tmpl) THEN tmpl
    ELSE LET template == Get(tmpl, "template", EmptyDict)
             settings == Get(template, "settings", EmptyDict)
             index == Get(settings, "index", EmptyDict)
             lifecycle == Get(index, "lifecycle", EmptyDict)
         IN  Put(tmpl, "template",
                 Put(template, "settings",
                     Put(settings, "index",
                         Put(index, "lifecycle", Pop(lifecycle, "name")))))

StripLifecycle(tmpl) ==
    IF ~HasKey(tmpl, "template") THEN tmpl
    ELSE LET template == Get(tmpl, "template", EmptyDict) IN
      IF ~HasKey(template, "settings") THEN tmpl
      ELSE LET settings == Get(template, "settings", EmptyDict) IN
        IF ~HasKey(settings, "index") THEN tmpl
        ELSE LET index == Get(settings, "index", EmptyDict) IN
          Put(tmpl, "template",
              Put(template, "settings",
                  Put(settings, "index", Pop(index, "lifecycle"))))

\* settings.get("index", {}).get("lifecycle", {}).get("name") is truthy
HasLifecycleName(tmpl) ==
    LET settings == Get(Get(tmpl, "template", EmptyDict), "settings", EmptyDict)
        lifecycle == Get(Get(settings, "index", EmptyDict), "lifecycle", EmptyDict)
        name == Get(lifecycle, "name", Str(""))
    IN  name.s # ""

----------------------------------------------------------------------------
(* Pattern filter: OLD_FORMAT_PATTERN = re.compile(r".*_c\d{3}_.*") used   *)
(* with re.match (anchored at the start, not at the end).                  *)

Digits == {"0", "1", "2", "3", "4", "5", "6", "7", "8", "9"}

ReDotStar == [op |-> "dotstar", ch |-> ""]
ReLit(c) == [op |-> "lit", ch |-> c]
ReDigit == [op |-> "digit", ch |-> ""]

OLD_FORMAT_PATTERN ==
    <<ReDotStar, ReLit("_"), ReLit("c"), ReDigit, ReDigit, ReDigit,
      ReLit("_"), ReDotStar>>

RECURSIVE ReMatchFrom(_, _, _, _)
\* re[i..] matches a prefix of str[j..]
ReMatchFrom(re, i, str, j) ==
    IF i > Len(re) THEN TRUE
    ELSE IF re[i].op = "dotstar"
         THEN \/ ReMatchFrom(re, i + 1, str, j)
              \/ /\ j <= Len(str)
                 /\ str[j] # "\n"
                 /\ ReMatchFrom(re, i, str, j + 1)
    ELSE IF re[i].op = "lit"
         THEN /\ j <= Len(str)
              /\ str[j] = re[i].ch
              /\ ReMatchFrom(re, i + 1, str, j + 1)
    ELSE /\ j <= Len(str)
         /\ str[j] \in Digits
         /\ ReMatchFrom(re, i + 1, str, j + 1)

\* OLD_FORMAT_PATTERN.match(p) is not None
ReMatch(re, str) == ReMatchFrom(re, 1, str, 1)

\* all() in place of any()
MatchesOldFormatAll(pats) ==
    \A i \in 1..Len(pats) : ReMatch(OLD_FORMAT_PATTERN, pats[i])

\* any(OLD_FORMAT_PATTERN.match(p) for p in patterns)
MatchesOldFormat(pats) ==
    \E i \in 1..Len(pats) : ReMatch(OLD_FORMAT_PATTERN, pats[i])

----------------------------------------------------------------------------
(* Index patterns used as inputs.  A string is a tuple of characters.      *)

P_logs_c123_v2 == <<"l", "o", "g", "s", "_", "c", "1", "2", "3", "_", "v", "2">>
P_logs_v2 == <<"l", "o", "g", "s", "_", "v", "2">>
P_logs_c12_v2 == <<"l", "o", "g", "s", "_", "c", "1", "2", "_", "v", "2">>
P_logs_c1234_v2 == <<"l", "o", "g", "s", "_", "c", "1", "2", "3", "4", "_", "v", "2">>
P_star_c007_star == <<"*", "_", "c", "0", "0", "7", "_", "*">>
P_c123_ == <<"c", "1", "2", "3", "_">>
P_logs_C123_v2 == <<"l", "o", "g", "s", "_", "C", "1", "2", "3", "_", "v", "2">>
P_newline_c123_ == <<"a", "\n", "_", "c", "1", "2", "3", "_">>

PatternStrings ==
    {P_logs_c123_v2, P_logs_v2, P_logs_c12_v2, P_logs_c1234_v2,
     P_star_c007_star, P_c123_, P_logs_C123_v2, P_newline_c123_}

RECURSIVE SeqsUpTo(_, _)
\* all sequences over S of length at most n
SeqsUpTo(S, n) ==
    IF n = 0 THEN {<<>>}
    ELSE LET shorter == SeqsUpTo(S, n - 1)
         IN  shorter \cup {Append(q, x) : q \in shorter, x \in S}

PatternLists == SeqsUpTo(PatternStrings, MaxPatterns)

----------------------------------------------------------------------------
(* Template bodies used as inputs: the "index_template" object of one      *)
(* entry of GET /_index_template, with every level of                      *)
(* template.settings.index.lifecycle present, empty or missing.            *)

PolicyName == <<"name", Str("logs-policy")>>
RolloverAlias == <<"rollover_alias", Str("logs-write")>>
Shards == <<"number_of_shards", Str("1")>>
Mappings == <<"mappings", Obj(<<<<"dynamic", Str("false")>>>>)>>
Aliases == <<"aliases", EmptyDict>>
Priority == <<"priority", Str("100")>>
Analysis == <<"analysis", EmptyDict>>

LifecycleValues ==
    {EmptyDict, Obj(<<PolicyName>>), Obj(<<PolicyName, RolloverAlias>>),
     Obj(<<RolloverAlias>>)}

IndexDicts ==
    {EmptyDict, Obj(<<Shards>>)}
    \cup {Obj(<<<<"lifecycle", lc>>>>) : lc \in LifecycleValues}
    \cup {Obj(<<Shards, <<"lifecycle", lc>>>>) : lc \in LifecycleValues}
    \cup {Obj(<<<<"lifecycle", lc>>, Shards>>) : lc \in LifecycleValues}

SettingsDicts ==
    {EmptyDict, Obj(<<<<"lifecycle", Obj(<<PolicyName>>)>>>>)}
    \cup {Obj(<<<<"index", ix>>>>) : ix \in IndexDicts}
    \cup {Obj(<<<<"index", ix>>, Analysis>>) : ix \in IndexDicts}

TemplateDicts ==
    {EmptyDict, Obj(<<Mappings>>)}
    \cup {Obj(<<<<"settings", st>>>>) : st \in SettingsDicts}
    \cup {Obj(<<Mappings, <<"settings", st>>, Aliases>>) : st \in SettingsDicts}

IndexPatternsOf(pats) == <<"index_patterns", Arr(pats)>>

\* the body of a template with the given patterns and "template" object
Body(pats, template) ==
    Obj(<<IndexPatternsOf(pats), <<"template", template>>, Priority>>)

Bodies ==
    {Obj(<<IndexPatternsOf(<<P_logs_c123_v2>>), Priority>>)}
    \cup {Body(<<P_logs_c123_v2>>, t) : t \in TemplateDicts}

----------------------------------------------------------------------------
(* The cluster: a listing of entries {"name": n, "index_template": body},  *)
(* names unique, as GET /_index_template returns them.                     *)

TemplateNames == <<"A", "B", "C", "D", "E">>

\* legacy-named, policy attached (with a sibling setting under lifecycle)
BodyEligible ==
    Body(<<P_logs_c123_v2>>,
         Obj(<<<<"settings",
                 Obj(<<<<"index",
                         Obj(<<Shards,
                               <<"lifecycle",
                                 Obj(<<PolicyName, RolloverAlias>>)>>>>)>>>>)>>,
               Mappings, Aliases>>))

\* legacy-named through its second pattern only, no lifecycle
BodyNoIlm ==
    Body(<<P_logs_v2, P_star_c007_star>>,
         Obj(<<<<"settings", Obj(<<<<"index", Obj(<<Shards>>)>>>>)>>, Mappings>>))

\* not legacy-named, policy attached
BodyOtherName ==
    Body(<<P_logs_c1234_v2>>,
         Obj(<<<<"settings",
                 Obj(<<<<"index",
                         Obj(<<<<"lifecycle", Obj(<<PolicyName>>)>>>>)>>>>)>>>>))

\* legacy-named, a lifecycle object that holds no policy name
BodyNoPolicyName ==
    Body(<<P_logs_c123_v2>>,
         Obj(<<<<"settings",
                 Obj(<<<<"index",
                         Obj(<<<<"lifecycle", Obj(<<RolloverAlias>>)>>,
                               Shards>>)>>>>)>>>>))

TemplateKinds == {BodyEligible, BodyNoIlm, BodyOtherName, BodyNoPolicyName}

Entry(n, body) == [name |-> n, index_template |-> body]

Catalogs ==
    UNION {{[i \in 1..n |-> Entry(TemplateNames[i], f[i])] :
                f \in [1..n -> TemplateKinds]} : n \in 0..MaxTemplates}

\* the stored body of template n
StoredBody(cl, n) ==
    cl[CHOOSE i \in 1..Len(cl) : cl[i].name = n].index_template

----------------------------------------------------------------------------
(* json.dumps: the serialised text, as a sequence of tokens *)

Quoted(chars) == <<"\"">> \o chars \o <<"\"">>

RECURSIVE DumpStrings(_, _)
DumpStrings(xs, i) ==
    IF i > Len(xs) THEN <<>>
    ELSE Quoted(xs[i]) \o (IF i < Len(xs) THEN <<", ">> ELSE <<>>)
         \o DumpStrings(xs, i + 1)

RECURSIVE Dumps(_)
RECURSIVE DumpPairs(_, _)
DumpPairs(kv, i) ==
    IF i > Len(kv) THEN <<>>
    ELSE Quoted(<<kv[i][1]>>) \o <<": ">> \o Dumps(kv[i][2])
         \o (IF i < Len(kv) THEN <<", ">> ELSE <<>>)
         \o DumpPairs(kv, i + 1)

Dumps(v) ==
    IF v.kind = "obj" THEN <<"{">> \o DumpPairs(v.kv, 1) \o <<"}">>
    ELSE IF v.kind = "arr" THEN <<"[">> \o DumpStrings(v.items, 1) \o <<"]">>
    ELSE Quoted(<<v.s>>)

----------------------------------------------------------------------------
(* curl_request: one HTTP request.  curl runs with -s and without --fail,  *)
(* so it exits 0 on an HTTP error status and the JSON error body of the    *)
(* cluster is parsed and returned like any other response.                 *)

Outcomes == {"ok", "conn", "nonjson", "status"}

None == [kind |-> "none", index_templates |-> <<>>]
ErrorJson == [kind |-> "error", index_templates |-> <<>>]
Acknowledged == [kind |-> "ack", index_templates |-> <<>>]
Listing(entries) == [kind |-> "listing", index_templates |-> entries]

\* truth value of a response: None is falsy, every dict here is non-empty
Truthy(resp) == resp.kind # "none"

\* 'index_templates' in resp
HasIndexTemplates(resp) == resp.kind = "listing"

CatalogPath == <<"_index_template">>
TemplatePath(n) == <<"_index_template", n>>

\* one request as issued: body is the text given to -d, <<>> without data
Request(method, path, body, outcome) ==
    [method |-> method, path |-> path, body |-> body, outcome |-> outcome]

\* what the cluster answers to a request that reaches it and succeeds
Answer(cl, method, path) ==
    IF method = "PUT" THEN Acknowledged
    ELSE IF path = CatalogPath THEN Listing(cl)
    ELSE IF \E i \in 1..Len(cl) : cl[i].name = path[2]
         THEN Listing(SelectSeq(cl, LAMBDA e : e.name = path[2]))
    ELSE ErrorJson

\* the value curl_request returns
curl_request(cl, method, path, outcome) ==
    IF outcome = "ok" THEN Answer(cl, method, path)
    ELSE IF outcome = "status" THEN ErrorJson
    ELSE None

\* the cluster after a request
Applied(cl, method, path, data, outcome) ==
    IF method = "PUT" /\ outcome = "ok"
    THEN [i \in 1..Len(cl) |->
            IF cl[i].name = path[2] THEN Entry(cl[i].name, data) ELSE cl[i]]
    ELSE cl

FaultsOf(outcome) == IF outcome = "ok" THEN 0 ELSE 1

\* template_has_lifecycle, given the response of its GET
template_has_lifecycle(resp) ==
    IF ~Truthy(resp) \/ ~HasIndexTemplates(resp) THEN FALSE
    ELSE HasLifecycleKey(resp.index_templates[1].index_template)

\* remove_lifecycle_from_template raises (TypeError on None, KeyError on an
\* error body, IndexError on an empty listing) unless the GET returned a body
RemoveRaises(resp) ==
    \/ ~Truthy(resp)
    \/ ~HasIndexTemplates(resp)
    \/ resp.index_templates = <<>>

\* line 87 left out: the body is returned as it was read
RemoveWithoutStrip(resp) == resp.index_templates[1].index_template

\* remove_lifecycle_from_template: the data it returns with 'PUT', path
remove_lifecycle_from_template(resp) ==
    StripLifecycle(resp.index_templates[1].index_template)

----------------------------------------------------------------------------
(* The confirmation prompt: input(...).strip().lower() != 'proceed'        *)

I_proceed == <<"p", "r", "o", "c", "e", "e", "d">>
I_PROCEED == <<"P", "R", "O", "C", "E", "E", "D">>
I_Proceed_padded == <<" ", "P", "r", "o", "c", "e", "e", "d", "\t">>
I_empty == <<>>
I_yes == <<"y", "e", "s">>
I_proceeds == <<"p", "r", "o", "c", "e", "e", "d", "s">>
I_pro_ceed == <<"p", "r", "o", " ", "c", "e", "e", "d">>

OperatorInputs ==
    {I_proceed, I_PROCEED, I_Proceed_padded, I_empty, I_yes, I_proceeds,
     I_pro_ceed}

Whitespace == {" ", "\t", "\n", "\r"}

RECURSIVE LStrip(_)
LStrip(str) ==
    IF str # <<>> /\ Head(str) \in Whitespace THEN LStrip(Tail(str)) ELSE str

RECURSIVE RStrip(_)
RStrip(str) ==
    IF str # <<>> /\ str[Len(str)] \in Whitespace
    THEN RStrip(SubSeq(str, 1, Len(str) - 1))
    ELSE str

\* str.strip()
StrStrip(str) == RStrip(LStrip(str))

UpperCase == {"P", "R", "O", "C", "E", "D"}
LowerOf ==
    [c \in UpperCase |->
        CASE c = "P" -> "p" [] c = "R" -> "r" [] c = "O" -> "o"
          [] c = "C" -> "c" [] c = "E" -> "e" [] c = "D" -> "d"]

\* str.lower()
StrLower(str) ==
    [i \in 1..Len(str) |-> IF str[i] \in UpperCase THEN LowerOf[str[i]] ELSE str[i]]

\* the comparison of line 114 inverted
ConfirmsInverted(inp) == StrLower(StrStrip(inp)) # I_proceed

\* line 114: the operator's answer lets execute_removal go on
Confirms(inp) == StrLower(StrStrip(inp)) = I_proceed

----------------------------------------------------------------------------
(* Files and printed messages *)

NoFile == [exists |-> FALSE, lines |-> <<>>]
File(lines) == [exists |-> TRUE, lines |-> lines]

Line(kind, path, body) == [kind |-> kind, path |-> path, body |-> body]
StalePlan == File(<<Line("stale", <<>>, <<>>)>>)
PlanHeader == Line("header", <<>>, <<>>)

Msg(msg, n, a, b) == [msg |-> msg, name |-> n, a |-> a, b |-> b]

\* what curl_request prints besides its [DEBUG] line: an [ERROR] line when
\* curl exits non-zero (line 45) or the output is not JSON (line 47), and
\* nothing when the cluster answers an error status with a JSON body
CurlPrints(path, outcome) ==
    LET n == IF Len(path) > 1 THEN path[2] ELSE "" IN
    IF outcome = "conn" THEN <<Msg("[ERROR] curl failed", n, 0, 0)>>
    ELSE IF outcome = "nonjson"
         THEN <<Msg("[ERROR] Cannot parse JSON response", n, 0, 0)>>
    ELSE <<>>

----------------------------------------------------------------------------
(* Initial state: a cluster, the mode chosen on the command line, and, in   *)
(* plan mode (the only one that touches it), possibly a plan file left by  *)
(* an earlier run.                                                         *)

\* no run before the first one
NoRun == [eligible |-> <<>>, clean |-> FALSE]

PureIdle ==
    /\ patterns = <<>>
    /\ selected = <<>>
    /\ tmplIn = EmptyDict
    /\ tmplOut = <<>>

Init ==
    /\ cluster \in Catalogs
    /\ cluster0 = cluster
    /\ run = 1
    /\ previous = NoRun
    /\ mode \in {"plan", "execute", "list"}
    /\ pc = "main"
    /\ comp = <<>>
    /\ idx = 1
    /\ candidates = <<>>
    /\ skipped = <<>>
    /\ names = <<>>
    /\ requests = <<>>
    /\ faults = 0
    /\ operatorInput = <<>>
    /\ printed = <<>>
    /\ planFile \in (IF mode = "plan" THEN {NoFile, StalePlan} ELSE {NoFile})
    /\ listFile = NoFile
    /\ reportFile = NoFile
    /\ PureIdle

MayFail(outcome) == outcome = "ok" \/ faults < MaxFaults

----------------------------------------------------------------------------
(* scan_templates *)

\* the test of line 76 left out: every matching template is a candidate
NextCandidatesIgnoreIlm(cands, name, matches, has) ==
    IF matches THEN Append(cands, name) ELSE cands

\* lines 75-77: the names with ILM after one entry (matches: the pattern
\* filter selected it; has: template_has_lifecycle, called only if it did)
NextCandidates(cands, name, matches, has) ==
    IF matches /\ has THEN Append(cands, name) ELSE cands

\* the else of line 78 attached to the if of line 75
NextSkippedOuterElse(skp, name, matches, has) ==
    IF ~matches THEN Append(skp, name) ELSE skp

\* lines 75-79: the names without ILM after one entry
NextSkipped(skp, name, matches, has) ==
    IF matches /\ ~has THEN Append(skp, name) ELSE skp

\* lines 66-67: the catalog GET; a failed fetch leaves nothing to iterate
ScanFetch(o) ==
    /\ pc = "main"
    /\ mode \in {"plan", "execute"}
    /\ MayFail(o)
    /\ LET resp == curl_request(cluster, "GET", CatalogPath, o) IN
         comp' = IF Truthy(resp) /\ HasIndexTemplates(resp)
                 THEN resp.index_templates ELSE <<>>
    /\ requests' = Append(requests, Request("GET", CatalogPath, <<>>, o))
    /\ faults' = faults + FaultsOf(o)
    /\ printed' = printed \o CurlPrints(CatalogPath, o)
    /\ idx' = 1
    /\ pc' = "scan_loop"
    /\ UNCHANGED <<cluster, mode, candidates, skipped, names, operatorInput,
                   planFile, listFile, reportFile>>
    /\ UNCHANGED <<cluster0, run, previous, pureVars>>

\* lines 68-79: one iteration of the loop over the catalog
ScanStep(o) ==
    /\ pc = "scan_loop"
    /\ idx <= Len(comp)
    /\ LET name == comp[idx].name
           pats == Get(comp[idx].index_template, "index_patterns", Arr(<<>>)).items
       IN IF MatchesOldFormat(pats)
          THEN /\ MayFail(o)
               /\ LET resp == curl_request(cluster, "GET", TemplatePath(name), o)
                      has == template_has_lifecycle(resp)
                  IN /\ candidates' = NextCandidates(candidates, name, TRUE, has)
                     /\ skipped' = NextSkipped(skipped, name, TRUE, has)
               /\ requests' = Append(requests,
                                     Request("GET", TemplatePath(name), <<>>, o))
               /\ faults' = faults + FaultsOf(o)
               /\ printed' = printed \o CurlPrints(TemplatePath(name), o)
          ELSE /\ o = "ok"
               /\ candidates' = NextCandidates(candidates, name, FALSE, FALSE)
               /\ skipped' = NextSkipped(skipped, name, FALSE, FALSE)
               /\ UNCHANGED <<requests, faults, printed>>
    /\ idx' = idx + 1
    /\ UNCHANGED <<cluster, mode, pc, comp, names, operatorInput,
                   planFile, listFile, reportFile>>
    /\ UNCHANGED <<cluster0, run, previous, pureVars>>

\* the branches of line 172 exchanged
FlowOfExchanged(m) == IF m = "execute" THEN "plan" ELSE "execute"

\* main, lines 172-175: execute_removal if args.execute, else the plan
FlowOf(m) == IF m = "execute" THEN "execute" ELSE "plan"

\* main, lines 166-175: the report, then the flow of the chosen mode
Report ==
    /\ pc = "scan_loop"
    /\ idx > Len(comp)
    /\ printed' = Append(printed,
                         Msg("REPORT", "", Len(candidates), Len(skipped)))
    /\ reportFile' = File(<<Msg("REPORT", "", Len(candidates), Len(skipped))>>)
    /\ pc' = FlowOf(mode)
    /\ idx' = 1
    /\ UNCHANGED <<cluster, mode, comp, candidates, skipped, names, requests,
                   faults, operatorInput, planFile, listFile>>
    /\ UNCHANGED <<cluster0, run, previous, pureVars>>

----------------------------------------------------------------------------
(* execute_removal *)

\* the early return left out
NoTemplatesNever(templates) == FALSE

\* lines 91 and 110: not templates
NoTemplates(templates) == templates = <<>>

\* lines 110-112
ExecEmpty ==
    /\ pc = "execute"
    /\ NoTemplates(candidates)
    /\ printed' = Append(printed, Msg("No matching templates with ILM to update.", "", 0, 0))
    /\ pc' = "done"
    /\ UNCHANGED <<cluster, mode, comp, idx, candidates, skipped, names,
                   requests, faults, operatorInput, planFile, listFile,
                   reportFile>>
    /\ UNCHANGED <<cluster0, run, previous, pureVars>>

\* lines 113-116: the prompt
ExecConfirm(inp) ==
    /\ pc = "execute"
    /\ ~NoTemplates(candidates)
    /\ operatorInput' = <<inp>>
    /\ IF Confirms(inp)
       THEN /\ printed' = Append(printed, Msg("--- EXECUTE MODE ---", "", 0, 0))
            /\ pc' = "apply"
       ELSE /\ printed' = printed \o <<Msg("--- EXECUTE MODE ---", "", 0, 0),
                                       Msg("Aborted.", "", 0, 0)>>
            /\ pc' = "done"
    /\ idx' = 1
    /\ UNCHANGED <<cluster, mode, comp, candidates, skipped, names, requests,
                   faults, planFile, listFile, reportFile>>
    /\ UNCHANGED <<cluster0, run, previous, pureVars>>

\* the path built from the first name whatever the item
PathOfFirst(templates, i) == TemplatePath(templates[1])

\* lines 117-118 and 84 (98, 102 and 84 for the plan): the path of the i-th
\* item, path = f"/_index_template/{name}"
PathOf(templates, i) == TemplatePath(templates[i])

\* lines 117-121: one iteration: GET, strip, PUT, print OK or FAIL.  An
\* exception raised by remove_lifecycle_from_template is caught nowhere.
ExecStep(o1, o2) ==
    /\ pc = "apply"
    /\ idx <= Len(candidates)
    /\ LET name == candidates[idx]
           path == PathOf(candidates, idx)
           resp == curl_request(cluster, "GET", path, o1)
       IN IF RemoveRaises(resp)
          THEN /\ o2 = "ok"
               /\ faults + FaultsOf(o1) <= MaxFaults
               /\ requests' = Append(requests, Request("GET", path, <<>>, o1))
               /\ faults' = faults + FaultsOf(o1)
               /\ printed' = printed \o CurlPrints(path, o1)
               /\ pc' = "crashed"
               /\ UNCHANGED <<cluster, idx>>
          ELSE LET data == remove_lifecycle_from_template(resp)
                   resp2 == curl_request(cluster, "PUT", path, o2)
               IN /\ faults + FaultsOf(o1) + FaultsOf(o2) <= MaxFaults
                  /\ requests' = requests \o
                                 <<Request("GET", path, <<>>, o1),
                                   Request("PUT", path, Dumps(data), o2)>>
                  /\ faults' = faults + FaultsOf(o1) + FaultsOf(o2)
                  /\ cluster' = Applied(cluster, "PUT", path, data, o2)
                  /\ printed' = printed \o CurlPrints(path, o1)
                                 \o CurlPrints(path, o2)
                                 \o <<Msg(IF Truthy(resp2) THEN "OK" ELSE "FAIL",
                                          name, 0, 0)>>
                  /\ idx' = idx + 1
                  /\ pc' = pc
    /\ UNCHANGED <<mode, comp, candidates, skipped, names, operatorInput,
                   planFile, listFile, reportFile>>
    /\ UNCHANGED <<cluster0, run, previous, pureVars>>

\* the loop of line 117 is exhausted: execute_removal returns
ExecEnd ==
    /\ pc = "apply"
    /\ idx > Len(candidates)
    /\ pc' = "done"
    /\ UNCHANGED <<cluster, mode, comp, idx, candidates, skipped, names,
                   requests, faults, operatorInput, printed, planFile,
                   listFile, reportFile>>
    /\ UNCHANGED <<cluster0, run, previous, pureVars>>

----------------------------------------------------------------------------
(* generate_dry_run_plan *)

\* lines 91-93
PlanEmpty ==
    /\ pc = "plan"
    /\ NoTemplates(candidates)
    /\ printed' = Append(printed, Msg("No matching templates with ILM found. No plan created.", "", 0, 0))
    /\ pc' = "done"
    /\ UNCHANGED <<cluster, mode, comp, idx, candidates, skipped, names,
                   requests, faults, operatorInput, planFile, listFile,
                   reportFile>>
    /\ UNCHANGED <<cluster0, run, previous, pureVars>>

\* lines 94-97: open(DRY_RUN_FILE, 'w') truncates; the header is written
PlanOpen ==
    /\ pc = "plan"
    /\ ~NoTemplates(candidates)
    /\ printed' = Append(printed, Msg("Writing dry-run plan", "", 0, 0))
    /\ planFile' = File(<<PlanHeader>>)
    /\ idx' = 1
    /\ pc' = "plan_loop"
    /\ UNCHANGED <<cluster, mode, comp, candidates, skipped, names, requests,
                   faults, operatorInput, listFile, reportFile>>
    /\ UNCHANGED <<cluster0, run, previous, pureVars>>

\* lines 98-106: one iteration: write the GET command, GET, strip, write the
\* PUT command.  An exception leaves the with block, which closes the file.
PlanStep(o) ==
    /\ pc = "plan_loop"
    /\ idx <= Len(candidates)
    /\ MayFail(o)
    /\ LET name == candidates[idx]
           path == PathOf(candidates, idx)
           resp == curl_request(cluster, "GET", path, o)
           getLine == Line("GET", path, <<>>)
       IN /\ requests' = Append(requests, Request("GET", path, <<>>, o))
          /\ faults' = faults + FaultsOf(o)
          /\ IF RemoveRaises(resp)
             THEN /\ planFile' = File(Append(planFile.lines, getLine))
                  /\ pc' = "crashed"
                  /\ idx' = idx
             ELSE LET data == remove_lifecycle_from_template(resp) IN
                  /\ planFile' = File(planFile.lines \o
                                      <<getLine, Line("PUT", path, Dumps(data))>>)
                  /\ pc' = pc
                  /\ idx' = idx + 1
    /\ printed' = printed \o CurlPrints(TemplatePath(candidates[idx]), o)
    /\ UNCHANGED <<cluster, mode, comp, candidates, skipped, names,
                   operatorInput, listFile, reportFile>>
    /\ UNCHANGED <<cluster0, run, previous, pureVars>>

\* line 107
PlanEnd ==
    /\ pc = "plan_loop"
    /\ idx > Len(candidates)
    /\ printed' = Append(printed, Msg("Dry-run plan written.", "", 0, 0))
    /\ pc' = "done"
    /\ UNCHANGED <<cluster, mode, comp, idx, candidates, skipped, names,
                   requests, faults, operatorInput, planFile, listFile,
                   reportFile>>
    /\ UNCHANGED <<cluster0, run, previous, pureVars>>

----------------------------------------------------------------------------
(* list_templates_with_lifecycle *)

\* main lines 159-163 and lines 125-129
ListFetch(o) ==
    /\ pc = "main"
    /\ mode = "list"
    /\ MayFail(o)
    /\ requests' = Append(requests, Request("GET", CatalogPath, <<>>, o))
    /\ faults' = faults + FaultsOf(o)
    /\ LET resp == curl_request(cluster, "GET", CatalogPath, o) IN
         IF ~Truthy(resp) \/ ~HasIndexTemplates(resp)
         THEN /\ printed' = printed \o CurlPrints(CatalogPath, o)
                             \o <<Msg("Failed to fetch index templates.", "", 0, 0)>>
              /\ pc' = "done"
              /\ comp' = comp
         ELSE /\ comp' = resp.index_templates
              /\ pc' = "list_loop"
              /\ printed' = printed \o CurlPrints(CatalogPath, o)
    /\ idx' = 1
    /\ UNCHANGED <<cluster, mode, candidates, skipped, names, operatorInput,
                   planFile, listFile, reportFile>>
    /\ UNCHANGED <<cluster0, run, previous, pureVars>>

\* lines 130-133: one iteration
ListStep(o) ==
    /\ pc = "list_loop"
    /\ idx <= Len(comp)
    /\ MayFail(o)
    /\ LET name == comp[idx].name
           resp == curl_request(cluster, "GET", TemplatePath(name), o)
       IN /\ requests' = Append(requests,
                                Request("GET", TemplatePath(name), <<>>, o))
          /\ names' = IF template_has_lifecycle(resp)
                      THEN Append(names, name) ELSE names
    /\ printed' = printed \o CurlPrints(TemplatePath(comp[idx].name), o)
    /\ faults' = faults + FaultsOf(o)
    /\ idx' = idx + 1
    /\ UNCHANGED <<cluster, mode, pc, comp, candidates, skipped,
                   operatorInput, planFile, listFile, reportFile>>
    /\ UNCHANGED <<cluster0, run, previous, pureVars>>

\* lines 135-138: the names are written to out_file
ListWrite ==
    /\ pc = "list_loop"
    /\ idx > Len(comp)
    /\ listFile' = File(names)
    /\ printed' = Append(printed, Msg("Found templates with ILM", "", Len(names), 0))
    /\ pc' = "done"
    /\ UNCHANGED <<cluster, mode, comp, idx, candidates, skipped, names,
                   requests, faults, operatorInput, planFile, reportFile>>
    /\ UNCHANGED <<cluster0, run, previous, pureVars>>

----------------------------------------------------------------------------
(* The program run again in execute mode, after a confirmed execute run    *)
(* has ended: a new process, every variable of main is fresh, the cluster  *)
(* and the files are as the run before left them.                          *)

Rerun ==
    /\ pc \in {"done", "crashed"}
    /\ mode = "execute"
    /\ operatorInput # <<>>
    /\ Confirms(operatorInput[1])
    /\ run < MaxRuns
    /\ run' = run + 1
    /\ previous' = [eligible |-> candidates,
                    clean |-> /\ pc = "done"
                              /\ \A i \in 1..Len(requests) :
                                    requests[i].outcome = "ok"]
    /\ cluster0' = cluster
    /\ pc' = "main"
    /\ comp' = <<>>
    /\ idx' = 1
    /\ candidates' = <<>>
    /\ skipped' = <<>>
    /\ names' = <<>>
    /\ requests' = <<>>
    /\ operatorInput' = <<>>
    /\ printed' = <<>>
    /\ UNCHANGED <<cluster, mode, faults, planFile, listFile, reportFile>>
    /\ UNCHANGED pureVars

----------------------------------------------------------------------------

Next ==
    \/ \E o \in Outcomes : ScanFetch(o)
    \/ \E o \in Outcomes : ScanStep(o)
    \/ Report
    \/ ExecEmpty
    \/ \E inp \in OperatorInputs : ExecConfirm(inp)
    \/ \E o1, o2 \in Outcomes : ExecStep(o1, o2)
    \/ ExecEnd
    \/ PlanEmpty
    \/ PlanOpen
    \/ \E o \in Outcomes : PlanStep(o)
    \/ PlanEnd
    \/ \E o \in Outcomes : ListFetch(o)
    \/ \E o \in Outcomes : ListStep(o)
    \/ ListWrite
    \/ Rerun

Spec == Init /\ [][Next]_vars

----------------------------------------------------------------------------
(* The pattern filter on its own: lines 74-75 applied to a pattern list *)

MainIdle ==
    /\ cluster = <<>>
    /\ cluster0 = <<>>
    /\ run = 1
    /\ previous = NoRun
    /\ mode = "none"
    /\ pc = "pure"
    /\ comp = <<>>
    /\ idx = 1
    /\ candidates = <<>>
    /\ skipped = <<>>
    /\ names = <<>>
    /\ requests = <<>>
    /\ faults = 0
    /\ operatorInput = <<>>
    /\ printed = <<>>
    /\ planFile = NoFile
    /\ listFile = NoFile
    /\ reportFile = NoFile

PatternInit ==
    /\ MainIdle
    /\ patterns \in PatternLists
    /\ selected = <<>>
    /\ tmplIn = EmptyDict
    /\ tmplOut = <<>>

ApplyFilter ==
    /\ pc = "pure"
    /\ selected = <<>>
    /\ selected' = <<MatchesOldFormat(patterns)>>
    /\ UNCHANGED <<patterns, tmplIn, tmplOut>>
    /\ UNCHANGED mainVars

PatternNext == ApplyFilter

PatternSpec == PatternInit /\ [][PatternNext]_vars

----------------------------------------------------------------------------
(* The stripper on its own: line 87 applied to a body, then to its result *)

StripInit ==
    /\ MainIdle
    /\ patterns = <<>>
    /\ selected = <<>>
    /\ tmplIn \in Bodies
    /\ tmplOut = <<>>

ApplyStrip ==
    /\ pc = "pure"
    /\ Len(tmplOut) < 2
    /\ tmplOut' = Append(tmplOut,
                         StripLifecycle(IF tmplOut = <<>> THEN tmplIn
                                        ELSE tmplOut[Len(tmplOut)]))
    /\ UNCHANGED <<patterns, selected, tmplIn>>
    /\ UNCHANGED mainVars

StripNext == ApplyStrip

StripSpec == StripInit /\ [][StripNext]_vars

----------------------------------------------------------------------------
(* Properties *)

Elems(q) == {q[i] : i \in 1..Len(q)}

NoDuplicates(q) == \A i, j \in 1..Len(q) : i # j => q[i] # q[j]

HasPut == \E i \in 1..Len(requests) : requests[i].method = "PUT"

CountMsg(m) == Cardinality({i \in 1..Len(printed) : printed[i].msg = m})

AbortedOutcome ==
    /\ pc = "done"
    /\ printed # <<>>
    /\ printed[Len(printed)].msg = "Aborted."

Terminated == pc \in {"done", "crashed"}

\* the scan of a plan or execute run has returned
ScanDone == mode \in {"plan", "execute"} /\ pc \notin {"main", "scan_loop"}

IndexPatterns(body) == Get(body, "index_patterns", Arr(<<>>)).items

\* C1 (as amended): in execute mode no PUT is issued before the operator has
\* answered, and an answer that, stripped of surrounding whitespace and
\* lower-cased, is not 'proceed' yields no PUT and the aborted outcome.
ConfirmationGate ==
    mode = "execute" =>
        /\ operatorInput = <<>> => ~HasPut
        /\ (/\ operatorInput # <<>>
            /\ StrLower(StrStrip(operatorInput[1])) # I_proceed)
           => (~HasPut /\ cluster = cluster0 /\ AbortedOutcome)

\* C1, witness: a mistyped answer after a scan that found eligible templates
ConfirmationGateWitness ==
    /\ mode = "execute"
    /\ candidates # <<>>
    /\ operatorInput = <<I_proceeds>>
    /\ AbortedOutcome

\* C1 (as stated): every answer that is not exactly 'proceed' up to case
\* yields no PUT and the aborted outcome.
ConfirmationGateExact ==
    mode = "execute" =>
        /\ operatorInput = <<>> => ~HasPut
        /\ (/\ operatorInput # <<>>
            /\ StrLower(operatorInput[1]) # I_proceed)
           => (~HasPut /\ cluster = cluster0 /\ AbortedOutcome)

\* C2: a run in plan mode issues GET requests only and leaves the cluster
\* as it found it.
PlanModePure ==
    mode = "plan" =>
        /\ \A i \in 1..Len(requests) : requests[i].method = "GET"
        /\ cluster = cluster0

\* C2, witness: a finished plan run that recorded a PUT command
PlanModePureWitness ==
    /\ mode = "plan"
    /\ pc = "done"
    /\ \E i \in 1..Len(planFile.lines) : planFile.lines[i].kind = "PUT"
    /\ Len(requests) >= 3

\* C3: when a confirmed execute run ends, every eligible template has had
\* its PUT issued, the applied (OK) and failed (FAIL) reports sum to the size
\* of the eligible set, and the failed reports are the failed writes.
PartialFailureIsolation ==
    (/\ mode = "execute"
     /\ Terminated
     /\ operatorInput # <<>>
     /\ Confirms(operatorInput[1]))
    => /\ CountMsg("OK") + CountMsg("FAIL") = Len(candidates)
       /\ \A k \in 1..Len(candidates) :
            \E i \in 1..Len(requests) :
                /\ requests[i].method = "PUT"
                /\ requests[i].path = TemplatePath(candidates[k])
       /\ CountMsg("FAIL") =
            Cardinality({i \in 1..Len(requests) :
                            /\ requests[i].method = "PUT"
                            /\ requests[i].outcome # "ok"})

\* C4: stripping twice gives what stripping once gives, and a body without
\* the lifecycle key is returned unchanged.
StripIdempotent ==
    /\ Len(tmplOut) = 2 => tmplOut[2] = tmplOut[1]
    /\ (Len(tmplOut) >= 1 /\ ~HasLifecycleKey(tmplIn)) => tmplOut[1] = tmplIn

\* C4, witness: a body with a policy, stripped twice
StripIdempotentWitness ==
    /\ Len(tmplOut) = 2
    /\ HasLifecycleKey(tmplIn)
    /\ tmplOut[1] # tmplIn

\* a and b have the same keys in the same order, and equal values but at k
SameExcept(a, b, k) ==
    /\ Keys(a) = Keys(b)
    /\ \A i \in 1..Len(a.kv) : a.kv[i][1] # k => a.kv[i] = b.kv[i]

TemplateOf(body) == Get(body, "template", EmptyDict)
SettingsOf(body) == Get(TemplateOf(body), "settings", EmptyDict)
IndexOf(body) == Get(SettingsOf(body), "index", EmptyDict)
LifecycleOf(body) == Get(IndexOf(body), "lifecycle", EmptyDict)

\* every key outside template.settings.index is kept, in place and in value
OutsideIndexPreserved(t, out) ==
    /\ SameExcept(t, out, "template")
    /\ SameExcept(TemplateOf(t), TemplateOf(out), "settings")
    /\ SameExcept(SettingsOf(t), SettingsOf(out), "index")

\* C5 (as amended): the only difference between t and strip(t) is the
\* removed 'lifecycle' key of template.settings.index, with all it holds.
StripFrame ==
    Len(tmplOut) >= 1 =>
        IF HasLifecycleKey(tmplIn)
        THEN /\ OutsideIndexPreserved(tmplIn, tmplOut[1])
             /\ IndexOf(tmplOut[1]).kv =
                    SelectSeq(IndexOf(tmplIn).kv, LAMBDA p : p[1] # "lifecycle")
        ELSE tmplOut[1] = tmplIn

\* C5, witness: a stripped body that had mappings, aliases, a sibling index
\* setting and a lifecycle object with a policy name and a rollover alias
StripFrameWitness ==
    /\ Len(tmplOut) >= 1
    /\ HasKey(TemplateOf(tmplIn), "mappings")
    /\ HasKey(TemplateOf(tmplIn), "aliases")
    /\ HasKey(IndexOf(tmplIn), "number_of_shards")
    /\ HasKey(LifecycleOf(tmplIn), "name")
    /\ HasKey(LifecycleOf(tmplIn), "rollover_alias")

\* C5 (as stated): every key other than the policy name at
\* template.settings.index.lifecycle.name is kept with its value.
NonInterferenceNameOnly ==
    Len(tmplOut) >= 1 =>
        /\ OutsideIndexPreserved(tmplIn, tmplOut[1])
        /\ SameExcept(IndexOf(tmplIn), IndexOf(tmplOut[1]), "lifecycle")
        /\ \A i \in 1..Len(LifecycleOf(tmplIn).kv) :
              LET p == LifecycleOf(tmplIn).kv[i] IN
              p[1] # "name" =>
                  /\ HasKey(LifecycleOf(tmplOut[1]), p[1])
                  /\ Get(LifecycleOf(tmplOut[1]), p[1], EmptyDict) = p[2]

\* C6 (as amended): "logs_c123_v2" is selected; "logs_v2", "logs_c12_v2" and
\* "logs_c1234_v2" are not; a list holding a matching pattern is selected
\* whatever else it holds; the empty list is not selected.
PatternCorrect ==
    selected # <<>> =>
        /\ patterns = <<P_logs_c123_v2>> => selected[1]
        /\ patterns = <<P_logs_v2>> => ~selected[1]
        /\ patterns = <<P_logs_c12_v2>> => ~selected[1]
        /\ patterns = <<P_logs_c1234_v2>> => ~selected[1]
        /\ (\E i \in 1..Len(patterns) : patterns[i] = P_logs_c123_v2)
           => selected[1]
        /\ patterns = <<>> => ~selected[1]

\* C6, witness: the filter applied to the four-digit pattern
PatternCorrectWitness ==
    /\ patterns = <<P_logs_c1234_v2>>
    /\ selected = <<FALSE>>

\* C6 (as stated): as above, but "logs_c1234_v2" is selected.
PatternCorrectFourDigits ==
    selected # <<>> =>
        /\ patterns = <<P_logs_c123_v2>> => selected[1]
        /\ patterns = <<P_logs_v2>> => ~selected[1]
        /\ patterns = <<P_logs_c12_v2>> => ~selected[1]
        /\ patterns = <<P_logs_c1234_v2>> => selected[1]
        /\ (\E i \in 1..Len(patterns) : patterns[i] = P_logs_c123_v2)
           => selected[1]
        /\ patterns = <<>> => ~selected[1]

\* C7: after a scan, no name is in both returned lists or twice in one, every
\* listed name is a fetched template, and a name is listed only if one of
\* the template's index patterns matches the naming convention.
PartitionComplete ==
    ScanDone =>
        /\ NoDuplicates(candidates \o skipped)
        /\ \A n \in Elems(candidates) \cup Elems(skipped) :
              \E i \in 1..Len(comp) :
                  /\ comp[i].name = n
                  /\ \E k \in 1..Len(IndexPatterns(comp[i].index_template)) :
                        ReMatch(OLD_FORMAT_PATTERN,
                                IndexPatterns(comp[i].index_template)[k])

\* C7, witness: a scan of three templates that put one in each class
PartitionCompleteWitness ==
    /\ ScanDone
    /\ Len(comp) = 3
    /\ Len(candidates) = 1
    /\ Len(skipped) = 1
    /\ requests[1].outcome = "ok"

\* C8: after a scan, a pattern-matching template is eligible iff its body
\* holds a policy name at template.settings.index.lifecycle.name, and
\* skipped iff it holds none.
LifecycleInspection ==
    ScanDone =>
        \A i \in 1..Len(comp) :
            MatchesOldFormat(IndexPatterns(comp[i].index_template)) =>
                /\ comp[i].name \in Elems(candidates)
                     <=> HasLifecycleName(comp[i].index_template)
                /\ comp[i].name \in Elems(skipped)
                     <=> ~HasLifecycleName(comp[i].index_template)

\* C9: when a plan run with a non-empty eligible set ends, the plan file
\* holds, after its header, one GET entry followed by one PUT entry for each
\* eligible template, in order, and nothing else.
PlanArtifactComplete ==
    (mode = "plan" /\ Terminated /\ candidates # <<>>) =>
        /\ planFile.exists
        /\ Len(planFile.lines) = 1 + 2 * Len(candidates)
        /\ \A k \in 1..Len(candidates) :
              /\ planFile.lines[2 * k].kind = "GET"
              /\ planFile.lines[2 * k].path = TemplatePath(candidates[k])
              /\ planFile.lines[2 * k + 1].kind = "PUT"
              /\ planFile.lines[2 * k + 1].path = TemplatePath(candidates[k])

\* C10: list-lifecycle mode issues no PUT, enters neither the plan nor the
\* execute flow, and what it writes is exactly the set of templates of the
\* cluster with a policy attached.
ListLifecycleExact ==
    mode = "list" =>
        /\ ~HasPut
        /\ pc \in {"main", "list_loop", "done"}
        /\ listFile.exists =>
              Elems(listFile.lines) =
                  {cluster[i].name : i \in
                      {j \in 1..Len(cluster) :
                          HasLifecycleName(cluster[j].index_template)}}

\* the operator confirmed an execute run
Confirmed ==
    /\ mode = "execute"
    /\ operatorInput # <<>>
    /\ Confirms(operatorInput[1])

\* the requests of the scan: the catalog GET and one GET per matching entry
ScanRequests == 1 + Len(candidates) + Len(skipped)

\* indices of the requests issued after the scan
AfterScan == {i \in 1..Len(requests) : i > ScanRequests}

\* C11: a confirmed execute run never ends on an exception, and when it has
\* ended every eligible template was re-fetched; a template whose re-fetch
\* failed is reported FAIL and has no PUT.
RefetchFailureIsolation ==
    Confirmed =>
        /\ pc # "crashed"
        /\ Terminated =>
              \A k \in 1..Len(candidates) :
                  LET gets == {i \in AfterScan :
                                  /\ requests[i].method = "GET"
                                  /\ requests[i].path = TemplatePath(candidates[k])}
                  IN /\ gets # {}
                     /\ (\E i \in gets : requests[i].outcome # "ok") =>
                           /\ \E j \in 1..Len(printed) :
                                 /\ printed[j].msg = "FAIL"
                                 /\ printed[j].name = candidates[k]
                           /\ ~\E i \in AfterScan :
                                 /\ requests[i].method = "PUT"
                                 /\ requests[i].path = TemplatePath(candidates[k])

\* C12: a template whose PUT was answered with a non-success status is
\* reported FAIL and never OK.
NonSuccessIsFailure ==
    \A i \in 1..Len(requests) :
        (requests[i].method = "PUT" /\ requests[i].outcome = "status") =>
            /\ \E j \in 1..Len(printed) :
                  /\ printed[j].msg = "FAIL"
                  /\ printed[j].name = requests[i].path[2]
            /\ ~\E j \in 1..Len(printed) :
                  /\ printed[j].msg = "OK"
                  /\ printed[j].name = requests[i].path[2]

\* what a plan or execute run prints, up to its position, when the catalog
\* fetch succeeded and the catalog is empty
EmptyCatalogOutput ==
    <<Msg("REPORT", "", 0, 0)>>
    \o (IF pc \in {"plan", "execute"} THEN <<>>
        ELSE IF mode = "execute"
             THEN <<Msg("No matching templates with ILM to update.", "", 0, 0)>>
        ELSE <<Msg("No matching templates with ILM found. No plan created.",
                   "", 0, 0)>>)

\* C13: after a failed catalog fetch the run reports zero eligible
\* templates, issues no further request, asks for no confirmation, does not
\* end on an exception, and what it prints differs from what it prints after
\* a successful fetch of an empty catalog.
CatalogFetchFailure ==
    (/\ mode \in {"plan", "execute"}
     /\ requests # <<>>
     /\ requests[1].outcome # "ok")
    => /\ Len(requests) = 1
       /\ candidates = <<>>
       /\ operatorInput = <<>>
       /\ cluster = cluster0
       /\ pc \in {"scan_loop", "plan", "execute", "done"}
       /\ ScanDone =>
             /\ \E j \in 1..Len(printed) : printed[j] = Msg("REPORT", "", 0, 0)
             /\ printed # EmptyCatalogOutput

\* the requests issued after the scan, in order
AfterScanRequests == SubSeq(requests, ScanRequests + 1, Len(requests))

\* C14 (as amended): at every point of a confirmed execute run the requests
\* issued after the scan are GET, PUT of the first eligible template, GET,
\* PUT of the second, and so on in the order of the eligible list (the
\* templates whose write was issued are a prefix of it), and a template
\* whose stored body changed is one whose PUT was issued and succeeded.
PrefixMutation ==
    Confirmed =>
        /\ \A j \in 1..Len(AfterScanRequests) :
              LET k == (j + 1) \div 2 IN
              /\ k <= Len(candidates)
              /\ AfterScanRequests[j].path = TemplatePath(candidates[k])
              /\ AfterScanRequests[j].method = IF j % 2 = 1 THEN "GET" ELSE "PUT"
        /\ \A i \in 1..Len(cluster) :
              cluster[i] # cluster0[i] =>
                  \E j \in 1..Len(AfterScanRequests) :
                      /\ AfterScanRequests[j].method = "PUT"
                      /\ AfterScanRequests[j].outcome = "ok"
                      /\ AfterScanRequests[j].path = TemplatePath(cluster[i].name)

\* C14, witness: a failed write followed by a write that changed the cluster
PrefixMutationWitness ==
    /\ Confirmed
    /\ Len(AfterScanRequests) >= 4
    /\ AfterScanRequests[2].outcome # "ok"
    /\ AfterScanRequests[4].outcome = "ok"
    /\ cluster # cluster0

\* the names whose PUT was applied by the cluster
AppliedNames ==
    {requests[i].path[2] : i \in {j \in AfterScan :
                                     /\ requests[j].method = "PUT"
                                     /\ requests[j].outcome = "ok"}}

\* C14 (as stated): at every point of a confirmed execute run the templates
\* whose write has been applied are a prefix of the eligible list.
PrefixMutationApplied ==
    Confirmed =>
        \E n \in 0..Len(candidates) :
            AppliedNames = {candidates[k] : k \in 1..n}

\* C15: when the scan found no eligible template, the run asks for no
\* confirmation, issues no request after the scan, leaves the cluster and
\* the plan file as they were, does not end on an exception, and ends on the
\* no-op message of its mode.
EmptyEligible ==
    (ScanDone /\ candidates = <<>>) =>
        /\ operatorInput = <<>>
        /\ Len(requests) = ScanRequests
        /\ cluster = cluster0
        /\ planFile \in {NoFile, StalePlan}
        /\ pc \in {"plan", "execute", "done"}
        /\ pc = "done" =>
              printed[Len(printed)].msg =
                  IF mode = "execute"
                  THEN "No matching templates with ILM to update."
                  ELSE "No matching templates with ILM found. No plan created."

\* C15, witness: a finished plan run that found a matching template without
\* ILM and no eligible one, with a plan file of an earlier run in place
EmptyEligibleWitness ==
    /\ ScanDone
    /\ mode = "plan"
    /\ pc = "done"
    /\ candidates = <<>>
    /\ skipped # <<>>
    /\ planFile = StalePlan

\* the k-th write both modes are to produce from the cluster as found: the
\* path of the k-th eligible template and its stored body, stripped and
\* serialised
ExpectedWrite(k) ==
    <<TemplatePath(candidates[k]),
      Dumps(StripLifecycle(StoredBody(cluster0, candidates[k])))>>

PathAndBody(q) == [j \in 1..Len(q) |-> <<q[j].path, q[j].body>>]

\* the (path, body) pairs of the PUT commands recorded in the plan file
PlanWrites ==
    PathAndBody(SelectSeq(planFile.lines, LAMBDA l : l.kind = "PUT"))

\* the (path, body) pairs of the PUT requests sent after the scan
ExecWrites ==
    PathAndBody(SelectSeq(AfterScanRequests, LAMBDA r : r.method = "PUT"))

\* C16: the pairs recorded by a plan run and the pairs sent by a confirmed
\* execute run are, position by position, the same function of the cluster
\* as found and of the eligible list, and a run that reaches its end has
\* produced all of them: two such runs from the same cluster agree.
PlanExecuteEquivalence ==
    /\ (mode = "plan" /\ ScanDone) =>
          /\ \A j \in 1..Len(PlanWrites) :
                j <= Len(candidates) /\ PlanWrites[j] = ExpectedWrite(j)
          /\ pc = "done" => Len(PlanWrites) = Len(candidates)
    /\ Confirmed =>
          /\ \A j \in 1..Len(ExecWrites) :
                j <= Len(candidates) /\ ExecWrites[j] = ExpectedWrite(j)
          /\ pc = "done" => Len(ExecWrites) = Len(candidates)

\* C16, witness: a finished execute run that sent two writes and changed
\* the cluster
PlanExecuteEquivalenceWitness ==
    /\ Confirmed
    /\ pc = "done"
    /\ Len(ExecWrites) = 2
    /\ cluster # cluster0
    /\ HasLifecycleName(StoredBody(cluster0, candidates[1]))

\* C17: every PUT targets /_index_template/<name> for a name of the fetched
\* catalog that the scan of this run put in the eligible list and not in the
\* skipped list, no two PUTs target the same name, and a template whose
\* stored body changed is in the eligible list.
WritesConfined ==
    /\ \A i \in 1..Len(requests) :
          requests[i].method = "PUT" =>
              /\ Len(requests[i].path) = 2
              /\ requests[i].path[1] = "_index_template"
              /\ requests[i].path[2] \in Elems(candidates)
              /\ requests[i].path[2] \notin Elems(skipped)
              /\ \E e \in 1..Len(comp) : comp[e].name = requests[i].path[2]
    /\ \A i, j \in 1..Len(requests) :
          (/\ i # j
           /\ requests[i].method = "PUT"
           /\ requests[j].method = "PUT")
          => requests[i].path # requests[j].path
    /\ \A i \in 1..Len(cluster) :
          cluster[i] # cluster0[i] => cluster[i].name \in Elems(candidates)

\* C17, witness: a finished run over an eligible, a skipped and an excluded
\* template that issued its one PUT
WritesConfinedWitness ==
    /\ pc = "done"
    /\ HasPut
    /\ Len(comp) = 3
    /\ Len(candidates) = 1
    /\ Len(skipped) = 1

\* C18: in an execute run that follows a confirmed execute run in which every
\* request succeeded, the eligible list stays empty and no PUT is issued, and
\* once its scan has returned after a successful catalog fetch every template
\* that was eligible in the run before is in the skipped list.
Convergence ==
    (run > 1 /\ previous.clean /\ mode = "execute") =>
        /\ candidates = <<>>
        /\ ~HasPut
        /\ cluster = cluster0
        /\ (ScanDone /\ requests[1].outcome = "ok") =>
              \A n \in Elems(previous.eligible) : n \in Elems(skipped)

\* C18, witness: the second run has ended after a first run that stripped
\* two templates
ConvergenceWitness ==
    /\ run = 2
    /\ previous.clean
    /\ Len(previous.eligible) = 2
    /\ pc = "done"
    /\ requests[1].outcome = "ok"
    /\ Len(skipped) >= 2

====
